---- MODULE Spec2Model ----
(***************************************************************************)
(* The `publish` command of the aleph command-line client: a stream of     *)
(* jq-transformed records is validated, accumulated into batches of        *)
(* batchSize records, and every batch is stored (client.putData) and then  *)
(* published (client.publish) by publishBatch, concurrently with the       *)
(* ingestion of later records.  The 'end' handler joins all batches with   *)
(* Promise.all.                                                            *)
(*                                                                         *)
(* One action is one callback of the event loop, run to completion,        *)
(* together with the promise reactions (microtasks) it triggers.           *)
(***************************************************************************)
EXTENDS Integers, Sequences, FiniteSets, TLC

\* ------------------------------------------------------------------ bounds
MaxInput == 3           \* records delivered by the jq stream in one run
MaxBatchSize == 3       \* largest --batchSize option tried
MaxCompound == 2        \* largest --compound option tried

\* ------------------------------------------------------------ input values
\* The run's <schemaReference> argument and a reference to another schema.
schemaReference == "QmTarget"
otherReference == "QmOther"

\* `parsed.wki` of the n-th jq output line: null/undefined, "", or a
\* non-empty string (a different one for every line).
Null == "<null>"
Id(n) == <<"wki", n>>
Identifiers(n) == {<<Null>>, <<>>, Id(n)}

\* wki.length: identifiers are modelled as sequences, "" as the empty one.
length(w) == Len(w)

\* validate(schema, obj).success
validate(obj) == obj.valid

\* isSelfDescribingRecord(obj)
isSelfDescribingRecord(obj) == {"schema", "data"} \subseteq DOMAIN obj

\* ------------------------------------------------------------------- state
VARIABLES
    opts,             \* batchSize, compound, dryRun, skipSchemaValidation
    pc,               \* position of the command: see PcValues
    consumed,         \* the jq output lines handed to the 'data' handler so far
    statementBodies,  \* publishStream: payloads of the batch being filled
    statements,       \* publishStream: draft statements of the batch being filled
    publishPromises,  \* publishStream: one entry per publishBatch call
    joined,           \* state of Promise.all(publishPromises): see JoinValues
    stdout,           \* console.log lines
    stderr,           \* console.error lines
    items,            \* putData command: the objects of the batch being filled
    putDataCalls      \* putData command: one entry per client.putData call

vars == <<opts, pc, consumed, statementBodies, statements, publishPromises,
          joined, stdout, stderr, items, putDataCalls>>

\* The state of the putData command, which the publish command never touches.
putDataVars == <<items, putDataCalls>>

PcValues == {"getData", "retrievalFailed", "streaming", "crashed", "readError", "end",
             "ndjson", "ndjsonError", "ndjsonEnd"}
JoinValues == {"none", "pending", "fulfilled", "rejected"}

\* `publishOpts.compound || 1`; an absent --compound option is modelled as 0.
NoCompound == 0
compoundSize == IF opts.compound = NoCompound THEN 1 ELSE opts.compound

\* A plain input object, and an object that is already self-describing
\* ({schema: {'/': ref}, data: ...}).  `valid` stands for the verdict the
\* schema validator gives for the object.
PlainObj(n, v) == [body |-> n, valid |-> v]
SelfDescribingObj(ref, n, v) ==
    [schema |-> [link |-> ref], data |-> PlainObj(n, v), valid |-> v]

\* The objects the n-th line of the jq output may carry.  A run that skips
\* validation is fed plain objects the validator would refuse; a run that
\* validates is fed valid and invalid plain objects and valid
\* self-describing ones.
Objects(n) ==
    IF opts.skipSchemaValidation
    THEN {PlainObj(n, FALSE), SelfDescribingObj(otherReference, n, FALSE)}
    ELSE {PlainObj(n, v) : v \in BOOLEAN} \cup
         {SelfDescribingObj(ref, n, TRUE) : ref \in {schemaReference, otherReference}}

\* The n-th line of jq output: either not parseable as JSON or {wki, obj}.
JqOutput(n) ==
    {[parses |-> FALSE]} \cup
    {[parses |-> TRUE, wki |-> w, obj |-> o] : w \in Identifiers(n), o \in Objects(n)}

\* ------------------------------------------------------------ sequence ops
Min(a, b) == IF a < b THEN a ELSE b

\* Array.prototype.slice(from, to) with 0-based, end-exclusive indices.
slice(s, from, to) ==
    LET lo == Min(from, Len(s))
        hi == Min(to, Len(s))
    IN  IF hi <= lo THEN <<>> ELSE SubSeq(s, lo + 1, hi)

Ceil(n, k) == (n + k - 1) \div k


\* --------------------------------------------------------- remote client
\* The content address client.putData returns for one payload.
Address(payload) == [addr |-> payload]

\* A resolved client.putData(...bodies) carrying m addresses: the store is
\* order-preserving; a response that is too long repeats its last address.
putDataResponse(bodies, m) ==
    [i \in 1..m |-> Address(bodies[Min(i, Len(bodies))])]

\* A resolved client.publish(publishOpts, ...stmts) for the b-th batch: one
\* statement id per compound group of publishOpts.compound statements (per
\* statement when the option is absent).
publishResponse(b, stmts) ==
    [g \in 1..Ceil(Len(stmts), compoundSize) |-> [batch |-> b, group |-> g]]

\* -------------------------------------------------------- publishStream
\* Mutant: a record that fails validation is let through.
failsValidationNever(line) == FALSE

\* The three data-quality throws of the 'data' handler.
failsValidation(line) ==
    ~opts.skipSchemaValidation /\ ~validate(line.obj)

\* Mutant: only a null identifier is refused.
missingIdNullOnly(line) == line.wki = <<Null>>

missingId(line) ==
    line.wki = <<Null>> \/ length(line.wki) < 1

\* Mutant: the schema reference of a self-describing record is not compared.
schemaMismatchIgnored(line) == FALSE

schemaMismatch(line) ==
    isSelfDescribingRecord(line.obj) /\ line.obj.schema.link # schemaReference

\* The 'data' handler throws on this line (uncaught: the process dies).
throws(line) ==
    \/ ~line.parses
    \/ failsValidation(line)
    \/ missingId(line)
    \/ schemaMismatch(line)

\* selfDescribingObj for an accepted object.
selfDescribing(obj) ==
    IF isSelfDescribingRecord(obj)
    THEN obj
    ELSE [schema |-> [link |-> schemaReference], data |-> obj]

\* const stmt = {object: selfDescribingObj, refs, tags}
draftStatement(line) ==
    [object |-> selfDescribing(line.obj), refs |-> <<line.wki>>, tags |-> <<>>]

\* Mutant: a batch is flushed only once it exceeds the capacity.
batchFullStrict(bodies) == Len(bodies) > opts.batchSize

\* statementBodies.length >= batchSize
batchFull(bodies) == Len(bodies) >= opts.batchSize

\* Mutant: the 'end' handler flushes only a full batch.
batchPendingOnlyFull(bodies) == Len(bodies) >= opts.batchSize

\* 'end': statementBodies.length > 0
batchPending(bodies) == Len(bodies) > 0

\* Mutant: the batch is published without being stored first.
publishBatchNoStore(bodies, stmts) ==
    [state |-> "publish", bodies |-> bodies, statements |-> stmts,
     bodyHashes |-> <<>>, statementIds |-> <<>>, report |-> <<>>,
     error |-> [message |-> <<"none">>]]

\* publishBatch(client, publishOpts, statementBodies, statements): the
\* promise it returns, with client.putData outstanding.
publishBatch(bodies, stmts) ==
    [state |-> "putData", bodies |-> bodies, statements |-> stmts,
     bodyHashes |-> <<>>, statementIds |-> <<>>, report |-> <<>>,
     error |-> [message |-> <<"none">>]]

\* ---------------------------------------------------------- Promise.all
firstRejected(ps) ==
    CHOOSE i \in 1..Len(ps) :
        /\ ps[i].state = "rejected"
        /\ \A j \in 1..(i - 1) : ps[j].state # "rejected"

\* Mutant: the join is fulfilled as soon as no entry is rejected.
PromiseAllEager(ps) ==
    IF \E i \in 1..Len(ps) : ps[i].state = "rejected" THEN "rejected"
    ELSE "fulfilled"

\* Promise.all(ps): rejected as soon as one entry is rejected, fulfilled
\* once every entry is fulfilled.
PromiseAll(ps) ==
    IF \E i \in 1..Len(ps) : ps[i].state = "rejected" THEN "rejected"
    ELSE IF \A i \in 1..Len(ps) : ps[i].state = "fulfilled" THEN "fulfilled"
    ELSE "pending"

SuccessLine == [line |-> "All statements published successfully"]
PublishErrorLine(err) == [line |-> "Error publishing statements: ", message |-> err.message]
ReadErrorLine == [line |-> "Error reading from "]

\* Mutant: the outcome is reported again whenever a batch settles.
joinReactionsRepeated(was, ps) ==
    LET now == PromiseAll(ps) IN
    /\ joined' = now
    /\ stdout' = IF now = "fulfilled" /\ ~opts.dryRun
                 THEN Append(stdout, SuccessLine) ELSE stdout
    /\ stderr' = IF now = "rejected"
                 THEN Append(stderr, PublishErrorLine(ps[firstRejected(ps)].error))
                 ELSE stderr

\* The reactions of Promise.all(publishPromises).then(...).catch(...) once
\* the entries are ps; `was` is the state of the join before this callback.
joinReactions(was, ps) ==
    IF was \in {"fulfilled", "rejected"}
    THEN UNCHANGED <<joined, stdout, stderr>>
    ELSE LET now == PromiseAll(ps) IN
         /\ joined' = now
         /\ stdout' = IF now = "fulfilled" /\ ~opts.dryRun
                      THEN Append(stdout, SuccessLine) ELSE stdout
         /\ stderr' = IF now = "rejected"
                      THEN Append(stderr, PublishErrorLine(ps[firstRejected(ps)].error))
                      ELSE stderr

\* A settled batch reaches the join only if the 'end' handler created it.
afterBatch(ps) ==
    IF joined = "none"
    THEN UNCHANGED <<joined, stdout, stderr>>
    ELSE joinReactions(joined, ps)

\* ---------------------------------------------------- printBatchResults
\* Mutant: one entry per statement instead of one per statement id.
printBatchResultsPerStatement(bodyHashes, statementIds, stmts, k) ==
    [g \in 1..Len(stmts) |->
        [id |-> statementIds[Min(g, Len(statementIds))],
         bodies |-> <<[object |-> bodyHashes[g],
                       refs |-> stmts[g].refs,
                       tags |-> stmts[g].tags]>>]]

\* One entry per statement id: the id and the `bodies` printed under it.
printBatchResults(bodyHashes, statementIds, stmts, k) ==
    [g \in 1..Len(statementIds) |->
        LET i == g - 1
            objectRefs == slice(bodyHashes, i, i + k)
            sl == slice(stmts, i, i + k)
        IN  [id |-> statementIds[g],
             bodies |-> [idx \in 1..Len(sl) |->
                            [object |-> IF idx <= Len(objectRefs)
                                        THEN objectRefs[idx]
                                        ELSE [undefined |-> TRUE],
                             refs |-> sl[idx].refs,
                             tags |-> sl[idx].tags]]]]

\* ---------------------------------------------------------- publishBatch
\* Mutant: only a short response is refused.
countMismatchShort(bodyHashes, stmts) == Len(bodyHashes) < Len(stmts)

\* bodyHashes.length !== statements.length
countMismatch(bodyHashes, stmts) == Len(bodyHashes) # Len(stmts)

MismatchError(stmts, bodyHashes) ==
    [message |-> <<"Expected results from putting data blobs",
                   Len(stmts), Len(bodyHashes)>>]

\* Mutant: every statement gets the first address.
rewriteFirstHash(stmts, bodyHashes) ==
    [i \in 1..Len(stmts) |-> [stmts[i] EXCEPT !.object = bodyHashes[1]]]

\* statements.map((s, i) => { s.object = bodyHashes[i]; return s })
rewrite(stmts, bodyHashes) ==
    [i \in 1..Len(stmts) |-> [stmts[i] EXCEPT !.object = bodyHashes[i]]]

\* Mutant: a rejection cancels every batch that has not settled yet.
rejectSiblings(ps, b, err) ==
    [i \in 1..Len(ps) |->
        IF i = b \/ ps[i].state \in {"putData", "publish"}
        THEN [ps[i] EXCEPT !.state = "rejected", !.error = err]
        ELSE ps[i]]

\* The b-th promise is rejected with err; the other entries are untouched.
reject(ps, b, err) ==
    [ps EXCEPT ![b].state = "rejected", ![b].error = err]

\* The process is running its event loop (no uncaught exception so far and
\* the schema was retrieved).
running == pc \in {"streaming", "readError", "end"}

\* Mutant: the stream is paused while a batch has a call outstanding.
streamOpenWhenIdle ==
    /\ pc = "streaming"
    /\ \A b \in 1..Len(publishPromises) :
          publishPromises[b].state \in {"fulfilled", "rejected"}

\* Mutant: the stream is piped to the handlers before the schema arrives.
streamOpenEarly == pc \in {"getData", "retrievalFailed", "streaming"}

\* publishStream attached its 'data', 'error' and 'end' handlers and the
\* stream has neither ended nor failed; flushed batches do not pause it.
streamOpen == pc = "streaming"

\* Mutant: the dry-run option is not looked at.
printOnlyNever == FALSE

\* if (dryRun): print the refs and tags and return before batching.
printOnly == opts.dryRun

\* ----------------------------------------------------------------- Init
Options ==
    [batchSize : 1..MaxBatchSize,
     compound : {NoCompound} \cup 1..MaxCompound,
     dryRun : BOOLEAN,
     skipSchemaValidation : BOOLEAN]

Init ==
    /\ opts \in Options
    /\ pc = "getData"
    /\ consumed = <<>>
    /\ statementBodies = <<>>
    /\ statements = <<>>
    /\ publishPromises = <<>>
    /\ joined = "none"
    /\ stdout = <<>>
    /\ stderr = <<>>
    /\ items = <<>>
    /\ putDataCalls = <<>>

\* -------------------------------------------------------------- handler
\* client.getData(schemaReference) rejects: the .catch rethrows and nothing
\* handles the rejection; publishStream is never called.
GetDataFails ==
    /\ pc = "getData"
    /\ pc' = "retrievalFailed"
    /\ UNCHANGED <<opts, consumed, statementBodies, statements,
                   publishPromises, joined, stdout, stderr>>
    /\ UNCHANGED putDataVars

\* client.getData resolves; validateSelfDescribingSchema throws unless the
\* document is well formed, otherwise publishStream attaches its handlers.
GetDataResolves(wellFormed) ==
    /\ pc = "getData"
    /\ pc' = IF wellFormed THEN "streaming" ELSE "retrievalFailed"
    /\ UNCHANGED <<opts, consumed, statementBodies, statements,
                   publishPromises, joined, stdout, stderr>>
    /\ UNCHANGED putDataVars

\* .on('data', jsonString => ...)
Data(line) ==
    /\ streamOpen
    /\ Len(consumed) < MaxInput
    /\ consumed' = Append(consumed, line)
    /\ IF throws(line)
       THEN /\ pc' = "crashed"
            /\ UNCHANGED <<statementBodies, statements, publishPromises, stdout>>
       ELSE IF printOnly
       THEN /\ stdout' = Append(stdout, [refs |-> <<line.wki>>, tags |-> <<>>])
            /\ UNCHANGED <<pc, statementBodies, statements, publishPromises>>
       ELSE LET bodies == Append(statementBodies, line.obj)
                stmts == Append(statements, draftStatement(line))
            IN  /\ IF batchFull(bodies)
                   THEN /\ publishPromises' =
                              Append(publishPromises, publishBatch(bodies, stmts))
                        /\ statementBodies' = <<>>
                        /\ statements' = <<>>
                   ELSE /\ statementBodies' = bodies
                        /\ statements' = stmts
                        /\ UNCHANGED publishPromises
                /\ UNCHANGED <<pc, stdout>>
    /\ UNCHANGED <<opts, joined, stderr>>
    /\ UNCHANGED putDataVars

\* .on('error', err => console.error(...)): the stream delivers nothing more.
ReadError ==
    /\ streamOpen
    /\ pc' = "readError"
    /\ stderr' = Append(stderr, ReadErrorLine)
    /\ UNCHANGED <<opts, consumed, statementBodies, statements,
                   publishPromises, joined, stdout>>
    /\ UNCHANGED putDataVars

\* .on('end', () => ...): flush the partial batch, then join all batches.
\* statementBodies and statements are not reset here.
End ==
    /\ streamOpen
    /\ pc' = "end"
    /\ LET ps == IF batchPending(statementBodies)
                 THEN Append(publishPromises,
                             publishBatch(statementBodies, statements))
                 ELSE publishPromises
       IN  /\ publishPromises' = ps
           /\ joinReactions("none", ps)
    /\ UNCHANGED <<opts, consumed, statementBodies, statements>>
    /\ UNCHANGED putDataVars

\* client.putData(...statementBodies) of batch b resolves with m addresses.
PutDataResolves(b, m) ==
    /\ running
    /\ b \in 1..Len(publishPromises)
    /\ publishPromises[b].state = "putData"
    /\ LET p == publishPromises[b]
           bodyHashes == putDataResponse(p.bodies, m)
           ps == IF countMismatch(bodyHashes, p.statements)
                 THEN reject([publishPromises EXCEPT ![b].bodyHashes = bodyHashes],
                             b, MismatchError(p.statements, bodyHashes))
                 ELSE [publishPromises EXCEPT
                          ![b].state = "publish",
                          ![b].bodyHashes = bodyHashes,
                          ![b].statements = rewrite(p.statements, bodyHashes)]
       IN  /\ publishPromises' = ps
           /\ afterBatch(ps)
    /\ UNCHANGED <<opts, pc, consumed, statementBodies, statements>>
    /\ UNCHANGED putDataVars

\* client.putData of batch b rejects.
PutDataRejects(b) ==
    /\ running
    /\ b \in 1..Len(publishPromises)
    /\ publishPromises[b].state = "putData"
    /\ LET ps == reject(publishPromises, b, [message |-> <<"putData failed">>])
       IN  /\ publishPromises' = ps
           /\ afterBatch(ps)
    /\ UNCHANGED <<opts, pc, consumed, statementBodies, statements>>
    /\ UNCHANGED putDataVars

\* client.publish of batch b resolves: printBatchResults, promise fulfilled.
PublishResolves(b) ==
    /\ running
    /\ b \in 1..Len(publishPromises)
    /\ publishPromises[b].state = "publish"
    /\ LET p == publishPromises[b]
           statementIds == publishResponse(b, p.statements)
           ps == [publishPromises EXCEPT
                     ![b].state = "fulfilled",
                     ![b].statementIds = statementIds,
                     ![b].report = printBatchResults(p.bodyHashes, statementIds,
                                                     p.statements, compoundSize)]
       IN  /\ publishPromises' = ps
           /\ afterBatch(ps)
    /\ UNCHANGED <<opts, pc, consumed, statementBodies, statements>>
    /\ UNCHANGED putDataVars

\* client.publish of batch b rejects.
PublishRejects(b) ==
    /\ running
    /\ b \in 1..Len(publishPromises)
    /\ publishPromises[b].state = "publish"
    /\ LET ps == reject(publishPromises, b, [message |-> <<"publish failed">>])
       IN  /\ publishPromises' = ps
           /\ afterBatch(ps)
    /\ UNCHANGED <<opts, pc, consumed, statementBodies, statements>>
    /\ UNCHANGED putDataVars

Batches == 1..MaxInput

Next ==
    \/ GetDataFails
    \/ \E wellFormed \in BOOLEAN : GetDataResolves(wellFormed)
    \/ \E line \in JqOutput(Len(consumed) + 1) : Data(line)
    \/ ReadError
    \/ End
    \/ \E b \in Batches : \E m \in 0..(MaxBatchSize + 1) :
          /\ b <= Len(publishPromises)
          /\ m \in {Len(publishPromises[b].bodies) - 1,
                    Len(publishPromises[b].bodies),
                    Len(publishPromises[b].bodies) + 1}
          /\ PutDataResolves(b, m)
    \/ \E b \in Batches : PutDataRejects(b)
    \/ \E b \in Batches : PublishResolves(b)
    \/ \E b \in Batches : PublishRejects(b)

Spec == Init /\ [][Next]_vars

TypeOK ==
    /\ opts \in Options
    /\ pc \in PcValues
    /\ joined \in JoinValues
    /\ Len(statementBodies) = Len(statements)


\* ------------------------------------------------------------ properties
RECURSIVE ConcatBodies(_)
\* The payload sequences of the flushed batches, concatenated in flush order.
ConcatBodies(ps) ==
    IF ps = <<>> THEN <<>>
    ELSE ConcatBodies(SubSeq(ps, 1, Len(ps) - 1)) \o ps[Len(ps)].bodies

\* The objects of the lines the 'data' handler accepted, in input order: all
\* lines consumed, except the one whose handler threw.
Accepted ==
    LET n == IF pc = "crashed" THEN Len(consumed) - 1 ELSE Len(consumed)
    IN  [i \in 1..n |-> consumed[i].obj]

\* A line passes validation (schema validation and the check of its own
\* schema reference) and identifier extraction.
PassesGates(line) ==
    /\ line.parses
    /\ opts.skipSchemaValidation \/ line.obj.valid
    /\ line.wki \notin {<<Null>>, <<>>}
    /\ "schema" \in DOMAIN line.obj => line.obj.schema.link = schemaReference

Validated ==
    LET ok == SelectSeq(consumed, PassesGates)
    IN  [i \in 1..Len(ok) |-> ok[i].obj]

\* Where an object occurs in the flushed batches.
Occurrences(obj) ==
    {<<b, i>> \in (1..Len(publishPromises)) \X (1..MaxBatchSize) :
        /\ i <= Len(publishPromises[b].bodies)
        /\ publishPromises[b].bodies[i] = obj}

Settled(p) == p.state \in {"fulfilled", "rejected"}
Rejected == {b \in 1..Len(publishPromises) : publishPromises[b].state = "rejected"}

\* C1 as stated: once the run is over (end of input, or aborted), the
\* flushed batches concatenated in flush order are exactly the records that
\* passed validation and identifier extraction, in input order.
C1_AllValidatedFlushed ==
    (~opts.dryRun /\ pc \in {"end", "crashed"})
        => ConcatBodies(publishPromises) = Validated

\* C1 amended: in normal mode the flushed batches followed by the batch
\* being filled always reproduce the accepted records in input order, and at
\* end of input nothing is left unflushed: every accepted record is in
\* exactly one flushed batch and no flushed batch is empty.
C1_FlushedInInputOrder ==
    ~opts.dryRun =>
        /\ pc \in {"streaming", "crashed", "readError"} =>
              ConcatBodies(publishPromises) \o statementBodies = Accepted
        /\ pc = "end" =>
              /\ ConcatBodies(publishPromises) = Accepted
              /\ \A n \in 1..Len(Accepted) : Cardinality(Occurrences(Accepted[n])) = 1
        /\ \A b \in 1..Len(publishPromises) :
              /\ Len(publishPromises[b].bodies) >= 1
              /\ Len(publishPromises[b].bodies) = Len(publishPromises[b].statements)

\* C1 witness: three records, a capacity flush and a shorter end-of-input drain.
C1_Witness ==
    /\ ~opts.dryRun
    /\ pc = "end"
    /\ Len(consumed) = 3
    /\ Len(publishPromises) = 2
    /\ Len(publishPromises[1].bodies) = 2
    /\ Len(publishPromises[2].bodies) = 1

\* The members the report entry of group g (1-based) should list for a
\* batch: the statements at 0-based positions [(g-1)*k, min(g*k, N)).
GroupMembers(p, g, k) ==
    LET from == (g - 1) * k
        to == Min(g * k, Len(p.statements))
    IN  [j \in 1..(to - from) |->
            [object |-> p.bodyHashes[from + j],
             refs |-> p.statements[from + j].refs,
             tags |-> p.statements[from + j].tags]]

\* C2: the entry printed for group index i lists exactly the statements and
\* addresses at batch positions [i*k, min((i+1)*k, N)).
C2_GroupsAreConsecutiveSlices ==
    \A b \in 1..Len(publishPromises) :
        LET p == publishPromises[b] IN
        p.state = "fulfilled" =>
            \A g \in 1..Len(p.report) :
                p.report[g].bodies = GroupMembers(p, g, compoundSize)

\* C3: a published batch of N statements has ceil(N/k) report entries, one
\* per returned statement id in the order returned, each with 1..k members.
C3_OneEntryPerStatementId ==
    \A b \in 1..Len(publishPromises) :
        LET p == publishPromises[b]
            k == IF opts.compound = NoCompound THEN 1 ELSE opts.compound
        IN  p.state = "fulfilled" =>
                /\ Len(p.report) = Ceil(Len(p.statements), k)
                /\ Len(p.report) = Len(p.statementIds)
                /\ \A g \in 1..Len(p.report) :
                      /\ p.report[g].id = p.statementIds[g]
                      /\ Len(p.report[g].bodies) >= 1
                      /\ Len(p.report[g].bodies) <= k

\* C3 witness: a batch of three statements published with compound = 2.
C3_Witness ==
    /\ opts.compound = 2
    /\ \E b \in 1..Len(publishPromises) :
          /\ publishPromises[b].state = "fulfilled"
          /\ Len(publishPromises[b].statements) = 3
          /\ Len(publishPromises[b].report) = 2

\* The store call of batch p resolved with a number of addresses other than
\* the number of statements.
WrongCount(p) ==
    /\ p.state # "putData"
    /\ p.error.message # <<"putData failed">>
    /\ Len(p.bodyHashes) # Len(p.statements)

IsDraft(p) ==
    \A i \in 1..Len(p.statements) :
        /\ "addr" \notin DOMAIN p.statements[i].object
        /\ p.statements[i].object.schema.link = schemaReference

\* C4: a batch whose store call returned M # N addresses is rejected with
\* the count error, its statements stay drafts, it never reaches the
\* publish call and nothing is reported for it.
C4_WrongCountRejectsBatch ==
    /\ [](\A b \in 1..Len(publishPromises) :
            LET p == publishPromises[b] IN
            WrongCount(p) =>
                /\ p.state = "rejected"
                /\ p.error.message = <<"Expected results from putting data blobs",
                                       Len(p.statements), Len(p.bodyHashes)>>
                /\ IsDraft(p)
                /\ p.statementIds = <<>>
                /\ p.report = <<>>)
    /\ [][\A b \in 1..Len(publishPromises) :
            publishPromises[b].state = "rejected" =>
                publishPromises'[b] = publishPromises[b]]_vars

\* C4 witness: one batch got too few addresses and another too many.
C4_Witness ==
    \E b, c \in 1..Len(publishPromises) :
        /\ WrongCount(publishPromises[b])
        /\ WrongCount(publishPromises[c])
        /\ Len(publishPromises[b].bodyHashes) < Len(publishPromises[b].statements)
        /\ Len(publishPromises[c].bodyHashes) > Len(publishPromises[c].statements)

Printed(out, l) == \E i \in 1..Len(out) : out[i] = l

\* C5: the success confirmation is printed only in normal mode, after end
\* of input, when every flushed batch has been stored and published.
C5_SuccessOnlyAfterAllPublished ==
    Printed(stdout, SuccessLine) =>
        /\ ~opts.dryRun
        /\ pc = "end"
        /\ \A b \in 1..Len(publishPromises) : publishPromises[b].state = "fulfilled"

\* C5 witness: success reported for a run of two batches.
C5_Witness ==
    /\ Printed(stdout, SuccessLine)
    /\ Len(publishPromises) = 2


PublishErrors ==
    {i \in 1..Len(stderr) : stderr[i].line = "Error publishing statements: "}

\* C6: an overall outcome (the success confirmation or the publish-error
\* report) is on the console only when no flushed batch has a store or
\* publish call outstanding.
C6_OutcomeOnlyAfterAllSettled ==
    (Printed(stdout, SuccessLine) \/ PublishErrors # {})
        => \A b \in 1..Len(publishPromises) : Settled(publishPromises[b])

\* C7: once every batch of the run has settled, the publish-error report
\* holds one message per failed batch.
C7_EveryBatchErrorReported ==
    (pc = "end" /\ \A b \in 1..Len(publishPromises) : Settled(publishPromises[b]))
        => Cardinality(PublishErrors) = Cardinality(Rejected)

\* A line of the input the 'data' handler accepts.
GoodLine(n) ==
    [parses |-> TRUE, wki |-> Id(n), obj |-> PlainObj(n, ~opts.skipSchemaValidation)]

\* C8: the step in which a batch fails changes nothing but that batch, and
\* while some batch has failed every other batch can still take its store
\* response, its publish response and its report, and the stream can still
\* deliver records and end.
C8_BatchFailureIsIsolated ==
    /\ [][\A b \in 1..Len(publishPromises) :
            (publishPromises[b].state # "rejected"
             /\ publishPromises'[b].state = "rejected")
            => /\ Len(publishPromises') = Len(publishPromises)
               /\ \A c \in 1..Len(publishPromises) :
                     c # b => publishPromises'[c] = publishPromises[c]
               /\ UNCHANGED <<pc, consumed, statementBodies, statements>>]_vars
    /\ []((Rejected # {} /\ pc # "crashed") =>
            /\ \A c \in 1..Len(publishPromises) :
                  /\ publishPromises[c].state = "putData" =>
                        ENABLED PutDataResolves(c, Len(publishPromises[c].bodies))
                  /\ publishPromises[c].state = "publish" =>
                        ENABLED PublishResolves(c)
            /\ pc = "streaming" => ENABLED End
            /\ (pc = "streaming" /\ Len(consumed) < MaxInput) =>
                  ENABLED Data(GoodLine(Len(consumed) + 1)))

\* C8 witness: the first batch failed, the second was published and
\* reported, and a third one is in flight.
C8_Witness ==
    /\ Len(publishPromises) = 3
    /\ publishPromises[1].state = "rejected"
    /\ publishPromises[2].state = "fulfilled"
    /\ publishPromises[2].report # <<>>
    /\ publishPromises[3].state = "publish"

\* The object obj is in no batch, flushed or being filled, neither as a
\* payload nor inside a statement nor as a stored address.
NeverBatched(obj) ==
    /\ \A j \in 1..Len(statementBodies) : statementBodies[j] # obj
    /\ \A j \in 1..Len(statements) : statements[j].object # obj
    /\ \A b \in 1..Len(publishPromises) :
          LET p == publishPromises[b] IN
          /\ \A j \in 1..Len(p.bodies) : p.bodies[j] # obj
          /\ \A j \in 1..Len(p.statements) :
                p.statements[j].object \notin {obj, Address(obj)}
          /\ \A j \in 1..Len(p.bodyHashes) : p.bodyHashes[j] # Address(obj)

\* The batch being filled when the run was aborted was not flushed: every
\* flushed batch was flushed by reaching capacity.
PartialBatchNotFlushed ==
    /\ ConcatBodies(publishPromises) \o statementBodies = Accepted
    /\ \A b \in 1..Len(publishPromises) :
          Len(publishPromises[b].bodies) = opts.batchSize

\* C9: a record whose identifier is missing or empty is the last one
\* consumed, the run is aborted, the record is in no batch, the batch it
\* would have joined is never flushed, and nothing happens after the abort.
C9_MissingIdAbortsBeforeNetwork ==
    /\ [](\A i \in 1..Len(consumed) :
            (consumed[i].parses /\ consumed[i].wki \in {<<Null>>, <<>>}) =>
                /\ pc = "crashed"
                /\ i = Len(consumed)
                /\ NeverBatched(consumed[i].obj)
                /\ \A j \in 1..Len(statements) : statements[j].refs # <<consumed[i].wki>>
                /\ ~opts.dryRun => PartialBatchNotFlushed)
    /\ [][pc # "crashed"]_vars

\* C9 witness: an otherwise valid record with an empty identifier arrives
\* while its batch holds two records.
C9_Witness ==
    /\ pc = "crashed"
    /\ ~opts.dryRun
    /\ consumed[Len(consumed)].parses
    /\ consumed[Len(consumed)].wki = <<>>
    /\ consumed[Len(consumed)].obj.valid
    /\ Len(statementBodies) = 2

IsForeign(line) ==
    /\ line.parses
    /\ "schema" \in DOMAIN line.obj
    /\ line.obj.schema.link # schemaReference

\* C10: a self-describing record that names another schema is the last one
\* consumed, the run is aborted, and the record is in no store call and in
\* no publish call.
C10_ForeignSchemaNeverPublished ==
    /\ [](\A i \in 1..Len(consumed) :
            IsForeign(consumed[i]) =>
                /\ pc = "crashed"
                /\ i = Len(consumed)
                /\ NeverBatched(consumed[i].obj)
                /\ ~opts.dryRun => PartialBatchNotFlushed)
    /\ [][pc = "crashed" => pc' = "crashed" /\ publishPromises' = publishPromises]_vars

\* C10 witness: a record naming another schema, with a good identifier,
\* arrives after a record that named the target schema was buffered.
C10_Witness ==
    /\ pc = "crashed"
    /\ IsForeign(consumed[Len(consumed)])
    /\ consumed[Len(consumed)].wki = Id(Len(consumed))
    /\ Len(statementBodies) = 1
    /\ "schema" \in DOMAIN statementBodies[1]

\* C11: in dry-run mode no batch is ever filled or flushed (so no store and
\* no publish call is made) and the console holds exactly one refs/tags
\* line per accepted record, in input order.
C11_DryRunOnlyPrints ==
    opts.dryRun =>
        /\ publishPromises = <<>>
        /\ statementBodies = <<>>
        /\ statements = <<>>
        /\ stdout = [i \in 1..Len(Accepted) |->
                        [refs |-> <<consumed[i].wki>>, tags |-> <<>>]]

\* C11 witness: a dry run that printed three records and reached end of input.
C11_Witness ==
    /\ opts.dryRun
    /\ pc = "end"
    /\ Len(stdout) = 3

\* The payloads and statements of p are aligned as the data model says:
\* payloads[i] is the data field inside statements[i].object.
PayloadIsData(bodies, stmts) ==
    \A i \in 1..Len(bodies) : bodies[i] = stmts[i].object.data

C13_BatchCountAndSizes ==
    ~opts.dryRun =>
        LET N == Len(Accepted)
            b == opts.batchSize
            B == Len(publishPromises)
        IN  /\ \A j \in 1..B :
                  /\ Len(publishPromises[j].bodies) = Len(publishPromises[j].statements)
                  /\ Len(publishPromises[j].bodies) >= 1
                  /\ Len(publishPromises[j].bodies) <= b
            /\ pc # "end" =>
                  /\ B = N \div b
                  /\ \A j \in 1..B : Len(publishPromises[j].bodies) = b
            /\ pc = "end" =>
                  /\ B = Ceil(N, b)
                  /\ \A j \in 1..(B - 1) : Len(publishPromises[j].bodies) = b
                  /\ B >= 1 => Len(publishPromises[B].bodies) = N - b * (B - 1)

\* C13 witness: three records with batchSize 2 gave batches of sizes 2 and 1.
C13_Witness ==
    /\ ~opts.dryRun
    /\ opts.batchSize = 2
    /\ pc = "end"
    /\ Len(Accepted) = 3
    /\ Len(publishPromises) = 2
    /\ Len(publishPromises[1].statements) = 2
    /\ Len(publishPromises[2].statements) = 1

\* C14: while the schema is being retrieved, and for ever after a failed
\* retrieval, nothing was consumed, batched, stored, published or printed,
\* and no step follows a failed retrieval.
C14_RetrievalErrorBeforeIngestion ==
    /\ [](pc \in {"getData", "retrievalFailed"} =>
            /\ consumed = <<>>
            /\ statementBodies = <<>>
            /\ statements = <<>>
            /\ publishPromises = <<>>
            /\ joined = "none"
            /\ stdout = <<>>)
    /\ [][pc # "retrievalFailed"]_vars

\* C14 witness: the retrieval of the schema failed.
C14_Witness == pc = "retrievalFailed" /\ ~opts.dryRun

\* ------------------------------------------------- the putData command
\* The putData command reads newline-delimited JSON through ndjson.parse()
\* and stores it with client.putData in batches of batchSize objects.  pc is
\* "ndjson" while the parser delivers objects, "ndjsonError" after its
\* 'error' event and "ndjsonEnd" once the input has ended.

\* The n-th object parsed from the input.
NdjsonObj(n) == [body |-> n]

\* client.putData(...items) of the putData command, outstanding.
putDataCall(batch) == [state |-> "pending", items |-> batch]

\* The options of the putData command: only batchSize.
PutDataOptions ==
    {o \in Options : o.compound = NoCompound /\ ~o.dryRun /\ ~o.skipSchemaValidation}

PutDataInit ==
    /\ opts \in PutDataOptions
    /\ pc = "ndjson"
    /\ consumed = <<>>
    /\ items = <<>>
    /\ putDataCalls = <<>>
    /\ stdout = <<>>
    /\ stderr = <<>>
    /\ statementBodies = <<>>
    /\ statements = <<>>
    /\ publishPromises = <<>>
    /\ joined = "none"

publishVars == <<opts, statementBodies, statements, publishPromises, joined>>

\* .on('data', obj => ...)
PutDataOnData ==
    /\ pc = "ndjson"
    /\ Len(consumed) < MaxInput
    /\ LET obj == NdjsonObj(Len(consumed) + 1)
           batch == Append(items, obj)
       IN  /\ consumed' = Append(consumed, obj)
           /\ IF Len(batch) >= opts.batchSize
              THEN /\ putDataCalls' = Append(putDataCalls, putDataCall(batch))
                   /\ items' = <<>>
              ELSE /\ items' = batch
                   /\ UNCHANGED putDataCalls
    /\ UNCHANGED <<pc, stdout, stderr>>
    /\ UNCHANGED publishVars

\* .on('error', err => console.error(...))
PutDataOnError ==
    /\ pc = "ndjson"
    /\ pc' = "ndjsonError"
    /\ stderr' = Append(stderr, ReadErrorLine)
    /\ UNCHANGED <<consumed, items, putDataCalls, stdout>>
    /\ UNCHANGED publishVars

\* The input ends: the command registers no 'end' handler.
PutDataOnEnd ==
    /\ pc = "ndjson"
    /\ pc' = "ndjsonEnd"
    /\ UNCHANGED <<consumed, items, putDataCalls, stdout, stderr>>
    /\ UNCHANGED publishVars

\* client.putData of call c resolves: hashes.forEach(h => console.log(h))
PutDataCallResolves(c) ==
    /\ c \in 1..Len(putDataCalls)
    /\ putDataCalls[c].state = "pending"
    /\ putDataCalls' = [putDataCalls EXCEPT ![c].state = "resolved"]
    /\ stdout' = stdout \o putDataResponse(putDataCalls[c].items,
                                           Len(putDataCalls[c].items))
    /\ UNCHANGED <<pc, consumed, items, stderr>>
    /\ UNCHANGED publishVars

\* client.putData of call c rejects: err => console.error(err.message)
PutDataCallRejects(c) ==
    /\ c \in 1..Len(putDataCalls)
    /\ putDataCalls[c].state = "pending"
    /\ putDataCalls' = [putDataCalls EXCEPT ![c].state = "rejected"]
    /\ stderr' = Append(stderr, [line |-> "putData failed"])
    /\ UNCHANGED <<pc, consumed, items, stdout>>
    /\ UNCHANGED publishVars

PutDataNext ==
    \/ PutDataOnData
    \/ PutDataOnError
    \/ PutDataOnEnd
    \/ \E c \in Batches : PutDataCallResolves(c)
    \/ \E c \in Batches : PutDataCallRejects(c)

PutDataSpec == PutDataInit /\ [][PutDataNext]_vars

\* Where the object obj was handed to client.putData.
Stored(obj) ==
    {<<c, j>> \in (1..Len(putDataCalls)) \X (1..MaxBatchSize) :
        /\ j <= Len(putDataCalls[c].items)
        /\ putDataCalls[c].items[j] = obj}

\* C15: once the input of the putData command has ended, every object
\* parsed from it was passed to exactly one client.putData call.
C15_EveryRecordStored ==
    pc = "ndjsonEnd" =>
        \A i \in 1..Len(consumed) : Cardinality(Stored(consumed[i])) = 1

\* --------------------------------------------- properties of publishBatch
RECURSIVE Offset(_)
\* The number of records flushed in the batches before batch b.
Offset(b) ==
    IF b <= 1 THEN 0 ELSE Offset(b - 1) + Len(publishPromises[b - 1].bodies)

\* The statements of p went through the storage rewrite.
Rewritten(p) ==
    \/ p.state \in {"publish", "fulfilled"}
    \/ p.state = "rejected" /\ p.error.message = <<"publish failed">>

\* C16: in a batch whose store call returned N addresses, statement i is
\* the draft of the i-th record of the batch with only its object replaced
\* by the i-th address; the rewrite step changes the statements of that
\* batch only.
C16_RewriteIsPositional ==
    /\ [](\A b \in 1..Len(publishPromises) :
            LET p == publishPromises[b] IN
            IF Rewritten(p)
            THEN /\ Len(p.bodyHashes) = Len(p.statements)
                 /\ \A i \in 1..Len(p.statements) :
                       p.statements[i] =
                           [object |-> p.bodyHashes[i],
                            refs |-> <<consumed[Offset(b) + i].wki>>,
                            tags |-> <<>>]
            ELSE \A i \in 1..Len(p.statements) :
                       /\ p.statements[i].refs = <<consumed[Offset(b) + i].wki>>
                       /\ p.statements[i].tags = <<>>
                       /\ p.statements[i].object = selfDescribing(p.bodies[i]))
    /\ [][\A c \in 1..Len(publishPromises) :
            publishPromises'[c].statements # publishPromises[c].statements =>
                /\ publishPromises[c].state = "putData"
                /\ publishPromises'[c].state = "publish"
                /\ statements' = statements
                /\ \A d \in 1..Len(publishPromises) :
                      d # c => publishPromises'[d] = publishPromises[d]]_vars

\* C16 witness: the second batch was rewritten while the first, of two
\* records, still waits for its addresses.
C16_Witness ==
    /\ Len(publishPromises) = 2
    /\ Len(publishPromises[1].statements) = 2
    /\ publishPromises[1].state = "putData"
    /\ publishPromises[2].state = "publish"

\* The states a batch can move between in one step.
BatchMoves ==
    {<<"putData", "publish">>, <<"putData", "rejected">>,
     <<"publish", "fulfilled">>, <<"publish", "rejected">>}

\* C17: a batch is one entry with one store call; it is in the publish call
\* or reported only with N addresses received, carries ids and a report
\* only once published, never changes its payloads, and only moves from the
\* store call to the publish call to the report (or to a failure).
C17_OneStoreThenOnePublish ==
    /\ [](\A b \in 1..Len(publishPromises) :
            LET p == publishPromises[b] IN
            /\ p.state = "putData" => p.bodyHashes = <<>>
            /\ p.state \in {"publish", "fulfilled"} =>
                  /\ Len(p.bodyHashes) = Len(p.bodies)
                  /\ Len(p.statements) = Len(p.bodies)
                  /\ \A i \in 1..Len(p.statements) :
                        p.statements[i].object = p.bodyHashes[i]
            /\ p.state # "fulfilled" => p.statementIds = <<>> /\ p.report = <<>>
            /\ p.state = "fulfilled" => p.statementIds # <<>> /\ p.report # <<>>
            /\ \A i \in 1..Len(p.bodies) : Cardinality(Occurrences(p.bodies[i])) = 1)
    /\ [][\A b \in 1..Len(publishPromises) :
            /\ publishPromises'[b].bodies = publishPromises[b].bodies
            /\ \/ publishPromises'[b].state = publishPromises[b].state
               \/ <<publishPromises[b].state, publishPromises'[b].state>> \in BatchMoves]_vars

\* C17 witness: one batch reported, one failed in its publish call and one
\* in its publish call.
C17_Witness ==
    /\ Len(publishPromises) = 3
    /\ publishPromises[1].state = "fulfilled"
    /\ publishPromises[2].state = "rejected"
    /\ publishPromises[2].error.message = <<"publish failed">>
    /\ publishPromises[3].state = "publish"

Outstanding ==
    {b \in 1..Len(publishPromises) : publishPromises[b].state \in {"putData", "publish"}}

\* C18: the stream keeps delivering records whatever calls are outstanding,
\* and a flush starts the store call of the new batch without touching the
\* batches flushed before.
C18_FlushDoesNotWait ==
    /\ []((pc = "streaming" /\ Len(consumed) < MaxInput) =>
            ENABLED Data(GoodLine(Len(consumed) + 1)))
    /\ [][Len(publishPromises') > Len(publishPromises) =>
            /\ Len(publishPromises') = Len(publishPromises) + 1
            /\ publishPromises'[Len(publishPromises')].state = "putData"
            /\ SubSeq(publishPromises', 1, Len(publishPromises)) = publishPromises]_vars

\* C18 witness: two batches have calls outstanding while the stream is
\* still delivering records.
C18_Witness ==
    /\ Cardinality(Outstanding) >= 2
    /\ pc = "streaming"
    /\ Len(consumed) < MaxInput
    /\ ENABLED Data(GoodLine(Len(consumed) + 1))

\* C19: with validation enabled, a record that fails validation is the last
\* one consumed, the run is aborted, the record is in no batch, the batch
\* being filled is never flushed and nothing is consumed or flushed after it.
C19_InvalidRecordStopsIngestion ==
    /\ [](\A i \in 1..Len(consumed) :
            (consumed[i].parses /\ ~opts.skipSchemaValidation /\ ~consumed[i].obj.valid) =>
                /\ pc = "crashed"
                /\ i = Len(consumed)
                /\ NeverBatched(consumed[i].obj)
                /\ ~opts.dryRun => PartialBatchNotFlushed)
    /\ [][pc = "crashed" =>
            /\ consumed' = consumed
            /\ publishPromises' = publishPromises
            /\ statementBodies' = statementBodies]_vars

\* C19 witness: an invalid record with a good identifier arrives while the
\* batch being filled holds two records.
C19_Witness ==
    /\ pc = "crashed"
    /\ ~opts.dryRun
    /\ ~opts.skipSchemaValidation
    /\ consumed[Len(consumed)].parses
    /\ ~consumed[Len(consumed)].obj.valid
    /\ consumed[Len(consumed)].wki = Id(Len(consumed))
    /\ Len(statementBodies) = 2

\* ------------------------------------------------------------- liveness
\* Some outstanding store or publish call of the publish command settles.
BatchSettles ==
    \E b \in Batches :
        \/ /\ b <= Len(publishPromises)
           /\ PutDataResolves(b, Len(publishPromises[b].bodies))
        \/ PutDataRejects(b)
        \/ PublishResolves(b)
        \/ PublishRejects(b)

\* A run of the publish command in normal (not dry-run) mode.  The compound
\* option only shapes the report of a published batch and is left absent.
LiveInit == Init /\ ~opts.dryRun /\ opts.compound = NoCompound

\* Normal mode, with a remote client that settles every call it was given.
LiveSpec == LiveInit /\ [][Next]_vars /\ WF_vars(BatchSettles)

\* The overall outcomes on the console.
Outcomes ==
    Cardinality({i \in 1..Len(stdout) : stdout[i] = SuccessLine})
        + Cardinality(PublishErrors)

\* C20: in normal mode, once the input has ended the run eventually reports
\* an overall outcome, and at no time is more than one outcome reported
\* (never the success confirmation and the publish-error report together).
C20_ExactlyOneOutcome ==
    /\ (pc = "end" /\ ~opts.dryRun) ~> (Outcomes = 1)
    /\ [](Outcomes <= 1)
    /\ [](~(Printed(stdout, SuccessLine) /\ PublishErrors # {}))

\* C20 witness: a run of two batches reported the publish error after one
\* batch was published and the other failed.
C20_Witness ==
    /\ pc = "end"
    /\ ~opts.dryRun
    /\ Len(publishPromises) = 2
    /\ publishPromises[1].state = "fulfilled"
    /\ publishPromises[2].state = "rejected"
    /\ Outcomes = 1
    /\ PublishErrors # {}

====
